---- MODULE Spec2Model ----
(***************************************************************************)
(* RemoteQueriesManager of extensions/ql-vscode/src/remote-queries/        *)
(* remote-queries-manager.ts: runRemoteQuery and the monitorRemoteQuery    *)
(* workflow it triggers (Spec), the result mapper (mapQueryResult) and the *)
(* auto-download admission filter (PureSpec), and two interleaved runs of  *)
(* monitorRemoteQuery with the paths they write (TwoRunsSpec).             *)
(*                                                                         *)
(* Strings are sequences of tokens, so that template literals, path.join   *)
(* and String(n) are concatenations that can go wrong.  An optional number *)
(* is <<>> (undefined) or <<n>>.                                           *)
(***************************************************************************)
EXTENDS Integers, Sequences, FiniteSets

VARIABLES
    pc,                 \* position of the monitorRemoteQuery run (or of the pure-function harness)
    query,              \* the RemoteQuery given to monitorRemoteQuery
    queryId,            \* const queryId (line 68)
    dirs,               \* directories holding a timestamp file (createTimestampFile)
    files,              \* path -> object written by fs.writeFile
    qhmItems,           \* the items of the QueryHistoryManager (line 73)
    queryWorkflowResult,\* const queryWorkflowResult (line 77)
    executionEndTime,   \* const executionEndTime (line 79)
    resultIndex,        \* const resultIndex (line 82)
    queryResult,        \* const queryResult (line 89)
    analysesToDownload, \* const analysesToDownload (line 125)
    autoDownload,       \* position of the autoDownloadRemoteQueryResults command
    askToOpen,          \* position of the askToOpenResults promise
    clock,              \* wall clock read by new Date()
    trace,              \* calls made to the collaborators, in order
    runPc,              \* position of the runRemoteQuery call
    querySubmission,    \* const querySubmission (line 52)
    monitorCommand,     \* the executed, not yet started codeQL.monitorRemoteQuery command
    tokens,             \* the cancellation token each operation was given or passed on
    cancelled,          \* the cancellation tokens that have fired
    jobs,               \* concurrent runs: each run's position, query name and queryId
    issued,             \* the ids nanoid() has returned
    written             \* concurrent runs: the paths each run has written

submitVars == <<runPc, querySubmission, monitorCommand>>
cancelVars == <<tokens, cancelled>>
jobVars == <<jobs, issued, written>>

vars == <<pc, query, queryId, dirs, files, qhmItems, queryWorkflowResult,
          executionEndTime, resultIndex, queryResult, analysesToDownload,
          autoDownload, askToOpen, clock, trace, submitVars, cancelVars, jobVars>>

-----------------------------------------------------------------------------
(* Bounds of the model *)

MaxItems == 2          \* items of a result index in the mapper/admission harness
MaxRunItems == 1       \* items of a result index in a monitorRemoteQuery run
MaxClock == 1          \* ticks of the wall clock
MaxOver == 2           \* how far the long result indexes go beyond autoDownloadMaxCount

-----------------------------------------------------------------------------
(* Program constants *)

autoDownloadMaxSize == 300 * 1024
autoDownloadMaxCount == 100

storagePath == <<"storage">>

-----------------------------------------------------------------------------
(* Values *)

Undefined == "<undefined>"    \* an unset string field
None == <<>>                  \* an unset constant or an absent object
NoNumber == <<>>
Some(x) == <<x>>

Min(a, b) == IF a <= b THEN a ELSE b

Digits == <<"0", "1", "2", "3", "4", "5", "6", "7", "8", "9">>

\* String(n), n.toString() and `${n}` of a non-negative integer: its decimal digits
RECURSIVE toString(_)
toString(n) ==
    IF n < 10 THEN <<Digits[n + 1]>>
    ELSE toString(n \div 10) \o <<Digits[(n % 10) + 1]>>

\* a slip: the test is for undefined only, so a size of 0 counts as present
Truthy_Defined(x) == x # NoNumber

\* JavaScript truthiness of an optional number: undefined and 0 are falsy
Truthy(x) == x # NoNumber /\ x[1] # 0

\* path.join of segments
RECURSIVE pathJoin(_)
pathJoin(segs) ==
    IF Len(segs) = 0 THEN <<".">>
    ELSE IF Len(segs) = 1 THEN segs[1]
    ELSE segs[1] \o <<"/">> \o pathJoin(Tail(segs))

-----------------------------------------------------------------------------
(* mapQueryResult, lines 141-158 *)

\* a slip: the path is built without its separator
downloadLinkOf_NoSeparator(item, artifactsUrlPath, qid) ==
    [ id            |-> toString(item.artifactId),
      urlPath       |-> artifactsUrlPath \o toString(item.artifactId),
      innerFilePath |-> IF Truthy(item.sarifFileSize) THEN "results.sarif" ELSE "results.bqrs",
      queryId       |-> qid ]

downloadLinkOf(item, artifactsUrlPath, qid) ==
    [ id            |-> toString(item.artifactId),
      urlPath       |-> artifactsUrlPath \o <<"/">> \o toString(item.artifactId),
      innerFilePath |-> IF Truthy(item.sarifFileSize) THEN "results.sarif" ELSE "results.bqrs",
      queryId       |-> qid ]

fileSizeOf(item) ==
    IF Truthy(item.sarifFileSize) THEN item.sarifFileSize[1] ELSE item.bqrsFileSize

analysisSummaryOf(item, artifactsUrlPath, qid) ==
    [ nwo             |-> item.nwo,
      resultCount     |-> item.resultCount,
      fileSizeInBytes |-> fileSizeOf(item),
      downloadLink    |-> downloadLinkOf(item, artifactsUrlPath, qid) ]

mapQueryResult(endTime, index, qid) ==
    [ executionEndTime  |-> endTime,
      analysisSummaries |->
          [i \in 1..Len(index.items) |->
              analysisSummaryOf(index.items[i], index.artifactsUrlPath, qid)] ]

-----------------------------------------------------------------------------
(* autoDownloadRemoteQueryResults, lines 125-133 *)

\* a slip: a size equal to the cap is admitted
admitted_Inclusive(a) == a.fileSizeInBytes <= autoDownloadMaxSize

\* .filter(a => a.fileSizeInBytes < autoDownloadMaxSize)
admitted(a) == a.fileSizeInBytes < autoDownloadMaxSize

filterAdmitted(s) == SelectSeq(s, admitted)

\* .slice(0, autoDownloadMaxCount)
sliceToMaxCount(s) == SubSeq(s, 1, Min(autoDownloadMaxCount, Len(s)))

\* .map(a => ({ nwo, resultCount, downloadLink, fileSize: String(a.fileSizeInBytes) }))
downloadRequestOf(a) ==
    [ nwo          |-> a.nwo,
      resultCount  |-> a.resultCount,
      downloadLink |-> a.downloadLink,
      fileSize     |-> toString(a.fileSizeInBytes) ]

analysesToDownloadOf(result) ==
    LET kept == sliceToMaxCount(filterAdmitted(result.analysisSummaries))
    IN  [i \in 1..Len(kept) |-> downloadRequestOf(kept[i])]

-----------------------------------------------------------------------------
(* Inputs *)

QueryNames == {"q1", "q2"}
NanoIds == {"n1", "n2"}
Errors == {"Workflow failed", "Timed out"}
ArtifactsUrlPath == <<"/repos/o/r/actions/artifacts">>

\* a target and the artifact that holds its results
Targets ==
    { [nwo |-> "o/a", artifactId |-> 5, resultCount |-> 0],
      [nwo |-> "o/b", artifactId |-> 12, resultCount |-> 7] }
SarifSizes == {NoNumber, Some(0), Some(100000), Some(autoDownloadMaxSize)}
BqrsSizes == {50000, autoDownloadMaxSize - 1, 400000}

Items ==
    { [ nwo |-> t.nwo, artifactId |-> t.artifactId, resultCount |-> t.resultCount,
        sarifFileSize |-> s, bqrsFileSize |-> b ] :
      t \in Targets, s \in SarifSizes, b \in BqrsSizes }

SeqsUpTo(S, n) == UNION { [1..k -> S] : k \in 0..n }

indexOf(items) == [ artifactsUrlPath |-> ArtifactsUrlPath, items |-> items ]

\* three targets of 100000, 400000 and 50000 bytes
ScenarioItems ==
    << [nwo |-> "o/a", artifactId |-> 5,  resultCount |-> 7, sarifFileSize |-> Some(100000), bqrsFileSize |-> 0],
       [nwo |-> "o/b", artifactId |-> 12, resultCount |-> 0, sarifFileSize |-> NoNumber,     bqrsFileSize |-> 400000],
       [nwo |-> "o/c", artifactId |-> 30, resultCount |-> 7, sarifFileSize |-> Some(0),      bqrsFileSize |-> 50000] >>

\* n items of distinct sizes; with every = 2 each odd item is too large to admit
LongItems(n, every) ==
    [ i \in 1..n |->
        [ nwo |-> IF i % 2 = 0 THEN "o/a" ELSE "o/b", artifactId |-> i, resultCount |-> i % 3,
          sarifFileSize |-> IF every = 2 /\ i % 2 = 1 THEN Some(400000 + i) ELSE Some(1000 + i),
          bqrsFileSize |-> 0 ] ]

LongItemSeqs ==
    { LongItems(n * every, every) :
        n \in (autoDownloadMaxCount - 1)..(autoDownloadMaxCount + MaxOver), every \in {1, 2} }

HarnessIndexes == { indexOf(s) : s \in SeqsUpTo(Items, MaxItems) \cup {ScenarioItems} \cup LongItemSeqs }

StorageKeys == { <<n, "-", i>> : n \in QueryNames, i \in NanoIds }

-----------------------------------------------------------------------------
(* The state a run of monitorRemoteQuery works on *)

Event(op, arg) == [op |-> op, arg |-> arg]

\* a slip: the id is the query name alone
createQueryId_NameOnly(queryName, nanoid) == <<queryName>>

\* createQueryId, lines 175-178: `${queryName}-${nanoid()}`
createQueryId(queryName, nanoid) == <<queryName, "-", nanoid>>

\* path.join(this.storagePath, queryId), line 189
directoryOf(qid) == pathJoin(<<storagePath, qid>>)

\* path.join(this.storagePath, queryId, fileName), line 193
filePathOf(qid, fileName) == pathJoin(<<storagePath, qid, <<fileName>>>>)

\* fs.writeFile(filePath, JSON.stringify(obj, null, 2), 'utf8'), line 194
writeFile(fs, filePath, obj) ==
    [p \in DOMAIN fs \cup {filePath} |-> IF p = filePath THEN obj ELSE fs[p]]

\* new RemoteQueryHistoryItem(query.queryName, queryId, this.storagePath), line 72
RemoteQueryHistoryItem(queryName, qid, storage) ==
    [ label |-> queryName, queryId |-> qid, storagePath |-> storage,
      completed |-> FALSE, status |-> "InProgress", failureReason |-> Undefined ]

\* the reference the run holds to its item: the item's place in qhmItems
queryHistoryItem == 1

WorkflowResults ==
    { [status |-> "CompletedSuccessfully", error |-> Undefined],
      [status |-> "Cancelled", error |-> Undefined],
      [status |-> "InProgress", error |-> Undefined] }
    \cup { [status |-> "CompletedUnsuccessfully", error |-> e] : e \in Errors }

Queries == { [queryName |-> n] : n \in QueryNames }

RunItems == { it \in Items : it.nwo = "o/a" /\ it.bqrsFileSize = 400000 }
RunIndexes == { indexOf(s) : s \in SeqsUpTo(RunItems, MaxRunItems) }

Tokens == {"t1", "t2"}

\* no operation has been given or has passed on a token yet
NoTokens ==
    [ run |-> "none", submit |-> "none", monitor |-> "none", poll |-> "none",
      autoDownload |-> "none", download |-> "none" ]

\* what runRemoteQuery of run-remote-query.ts resolves to: nothing, no query, or a query
Submissions ==
    {None, Some([query |-> None])} \cup { Some([query |-> Some(q)]) : q \in Queries }

\* what monitorQuery resolves to: Cancelled once the token it polls with has fired
monitorQueryResults ==
    IF tokens.poll \in cancelled
    THEN { r \in WorkflowResults : r.status = "Cancelled" }
    ELSE WorkflowResults

\* whether downloadAnalysesResults resolves: it is aborted once its token has fired
downloadOutcomes == IF tokens.download \in cancelled THEN {FALSE} ELSE BOOLEAN

Init ==
    /\ pc = "idle"
    /\ query = None
    /\ queryId = <<>>
    /\ dirs = {}
    /\ files = <<>>
    /\ qhmItems = <<>>
    /\ queryWorkflowResult = None
    /\ executionEndTime = None
    /\ resultIndex = None
    /\ queryResult = None
    /\ analysesToDownload = <<>>
    /\ autoDownload = "none"
    /\ askToOpen = "none"
    /\ clock = 0
    /\ trace = <<>>
    /\ runPc = "idle"
    /\ querySubmission = None
    /\ monitorCommand = None
    /\ tokens = NoTokens
    /\ cancelled = {}
    /\ jobs = <<>>
    /\ issued = {}
    /\ written = <<>>

-----------------------------------------------------------------------------
(* runRemoteQuery, lines 45-62 *)

\* lines 45-50: the call with its token, up to await Credentials.initialize
runRemoteQuery(token) ==
    /\ runPc = "idle"
    /\ tokens' = [tokens EXCEPT !.run = token]
    /\ trace' = Append(trace, Event("Credentials.initialize", <<>>))
    /\ runPc' = "credentials"
    /\ UNCHANGED <<pc, query, queryId, dirs, files, qhmItems, queryWorkflowResult,
                   executionEndTime, resultIndex, queryResult, analysesToDownload, autoDownload,
                   askToOpen, clock, querySubmission, monitorCommand, cancelled, jobVars>>

\* lines 50-57: credentials are there; the query is submitted with the token
runCredentialsDone ==
    /\ runPc = "credentials"
    /\ tokens' = [tokens EXCEPT !.submit = tokens.run]
    /\ trace' = Append(trace, Event("runRemoteQuery", <<>>))
    /\ runPc' = "runRemoteQuery"
    /\ UNCHANGED <<pc, query, queryId, dirs, files, qhmItems, queryWorkflowResult,
                   executionEndTime, resultIndex, queryResult, analysesToDownload, autoDownload,
                   askToOpen, clock, querySubmission, monitorCommand, cancelled, jobVars>>

\* a slip: only the submission is tested, so a submission without a query executes the command
runRemoteQueryDone_QueryNotTested(submission) ==
    /\ runPc = "runRemoteQuery"
    /\ querySubmission' = submission
    /\ IF submission # None
       THEN /\ monitorCommand' = submission[1].query
            /\ trace' = Append(trace, Event("codeQL.monitorRemoteQuery",
                                  IF submission[1].query # None
                                  THEN <<submission[1].query[1].queryName>> ELSE <<>>))
       ELSE UNCHANGED <<monitorCommand, trace>>
    /\ runPc' = "done"
    /\ UNCHANGED <<pc, query, queryId, dirs, files, qhmItems, queryWorkflowResult,
                   executionEndTime, resultIndex, queryResult, analysesToDownload, autoDownload,
                   askToOpen, clock, cancelVars, jobVars>>

\* lines 52-62: the submission resolves; with a query the monitor command is executed and
\* not awaited; the function returns
runRemoteQueryDone(submission) ==
    /\ runPc = "runRemoteQuery"
    /\ querySubmission' = submission
    /\ IF submission # None /\ submission[1].query # None
       THEN /\ monitorCommand' = submission[1].query
            /\ trace' = Append(trace, Event("codeQL.monitorRemoteQuery",
                                  <<submission[1].query[1].queryName>>))
       ELSE UNCHANGED <<monitorCommand, trace>>
    /\ runPc' = "done"
    /\ UNCHANGED <<pc, query, queryId, dirs, files, qhmItems, queryWorkflowResult,
                   executionEndTime, resultIndex, queryResult, analysesToDownload, autoDownload,
                   askToOpen, clock, cancelVars, jobVars>>

\* lines 50, 52: an awaited call rejects and so does runRemoteQuery
runRejected ==
    /\ runPc \in {"credentials", "runRemoteQuery"}
    /\ runPc' = "rejected"
    /\ UNCHANGED <<pc, query, queryId, dirs, files, qhmItems, queryWorkflowResult,
                   executionEndTime, resultIndex, queryResult, analysesToDownload, autoDownload,
                   askToOpen, clock, trace, querySubmission, monitorCommand, cancelVars, jobVars>>

\* the cancellation token some operation was given fires
Cancel(token) ==
    /\ token \in {tokens.run, tokens.monitor, tokens.autoDownload}
    /\ token \notin cancelled
    /\ cancelled' = cancelled \cup {token}
    /\ UNCHANGED <<pc, query, queryId, dirs, files, qhmItems, queryWorkflowResult,
                   executionEndTime, resultIndex, queryResult, analysesToDownload, autoDownload,
                   askToOpen, clock, trace, submitVars, tokens, jobVars>>

-----------------------------------------------------------------------------
(* monitorRemoteQuery, lines 64-119: one action per resumption of the      *)
(* async function, from one await to the next                              *)

\* lines 64-69: the command executed at line 60 runs: the call with the query of the
\* command and the token its caller gives it, up to await prepareStorageDirectory
monitorRemoteQuery(q, nanoid, token) ==
    /\ pc = "idle"
    /\ query' = Some(q)
    /\ queryId' = createQueryId(q.queryName, nanoid)
    /\ trace' = Append(trace, Event("createTimestampFile", directoryOf(queryId')))
    /\ pc' = "prepareStorageDirectory"
    /\ UNCHANGED <<dirs, files, qhmItems, queryWorkflowResult, executionEndTime, resultIndex,
                   queryResult, analysesToDownload, autoDownload, askToOpen, clock>>
    /\ monitorCommand = Some(q)
    /\ monitorCommand' = None
    /\ tokens' = [tokens EXCEPT !.monitor = token]
    /\ UNCHANGED <<runPc, querySubmission, cancelled, jobVars>>

\* lines 69-70: the directory is there; storeFile starts writing query.json
prepareStorageDirectoryDone ==
    /\ pc = "prepareStorageDirectory"
    /\ dirs' = dirs \cup {directoryOf(queryId)}
    /\ pc' = "storeQuery"
    /\ UNCHANGED <<query, queryId, files, qhmItems, queryWorkflowResult, executionEndTime,
                   resultIndex, queryResult, analysesToDownload, autoDownload, askToOpen,
                   clock, trace>>
    /\ UNCHANGED <<submitVars, cancelVars, jobVars>>

\* a slip: storeFile is not awaited, so the item is added while query.json is being written
storeQueryDone_NotAwaited ==
    /\ pc = "storeQuery"
    /\ directoryOf(queryId) \in dirs
    /\ files' = writeFile(files, filePathOf(queryId, "query.json"), query[1])
    /\ qhmItems' = Append(qhmItems, RemoteQueryHistoryItem(query[1].queryName, queryId, storagePath))
    /\ trace' = trace \o << Event("addQuery", queryId),
                            Event("Credentials.initialize", <<>>),
                            Event("writeFile", filePathOf(queryId, "query.json")) >>
    /\ pc' = "credentials"
    /\ UNCHANGED <<query, queryId, dirs, queryWorkflowResult, executionEndTime, resultIndex,
                   queryResult, analysesToDownload, autoDownload, askToOpen, clock>>
    /\ UNCHANGED <<submitVars, cancelVars, jobVars>>

\* lines 70-75: query.json is written; the item is added to the history; credentials are asked for
storeQueryDone ==
    /\ pc = "storeQuery"
    /\ directoryOf(queryId) \in dirs
    /\ files' = writeFile(files, filePathOf(queryId, "query.json"), query[1])
    /\ qhmItems' = Append(qhmItems, RemoteQueryHistoryItem(query[1].queryName, queryId, storagePath))
    /\ trace' = trace \o << Event("writeFile", filePathOf(queryId, "query.json")),
                            Event("addQuery", queryId),
                            Event("Credentials.initialize", <<>>) >>
    /\ pc' = "credentials"
    /\ UNCHANGED <<query, queryId, dirs, queryWorkflowResult, executionEndTime, resultIndex,
                   queryResult, analysesToDownload, autoDownload, askToOpen, clock>>
    /\ UNCHANGED <<submitVars, cancelVars, jobVars>>

\* lines 75-77: credentials are there; the monitor starts polling
credentialsDone ==
    /\ pc = "credentials"
    /\ trace' = Append(trace, Event("monitorQuery", <<query[1].queryName>>))
    /\ pc' = "monitorQuery"
    /\ UNCHANGED <<query, queryId, dirs, files, qhmItems, queryWorkflowResult, executionEndTime,
                   resultIndex, queryResult, analysesToDownload, autoDownload, askToOpen, clock>>
    /\ tokens' = [tokens EXCEPT !.poll = tokens.monitor]
    /\ UNCHANGED <<submitVars, cancelled, jobVars>>

\* lines 81-82: CompletedSuccessfully; the result index is asked for
onCompletedSuccessfully(result) ==
    /\ trace' = Append(trace, Event("getRemoteQueryIndex", <<query[1].queryName>>))
    /\ pc' = "getRemoteQueryIndex"
    /\ UNCHANGED qhmItems

\* a slip: the item is marked completed as well
onCompletedUnsuccessfully_Completed(result) ==
    /\ qhmItems' = [qhmItems EXCEPT ![queryHistoryItem].failureReason = result.error,
                                    ![queryHistoryItem].completed = TRUE,
                                    ![queryHistoryItem].status = "Failed"]
    /\ trace' = Append(trace, Event("showAndLogErrorMessage",
                          <<"Remote query execution failed. Error: ", result.error>>))
    /\ pc' = "showAndLogErrorMessage"

\* lines 103-106: CompletedUnsuccessfully
onCompletedUnsuccessfully(result) ==
    /\ qhmItems' = [qhmItems EXCEPT ![queryHistoryItem].failureReason = result.error,
                                    ![queryHistoryItem].status = "Failed"]
    /\ trace' = Append(trace, Event("showAndLogErrorMessage",
                          <<"Remote query execution failed. Error: ", result.error>>))
    /\ pc' = "showAndLogErrorMessage"

\* a slip: the failure reason is taken from the result, which has none
onCancelled_ResultError(result) ==
    /\ qhmItems' = [qhmItems EXCEPT ![queryHistoryItem].failureReason = result.error,
                                    ![queryHistoryItem].status = "Failed"]
    /\ trace' = Append(trace, Event("showAndLogErrorMessage",
                          <<"Remote query monitoring was cancelled">>))
    /\ pc' = "showAndLogErrorMessage"

\* a slip: the failure reason is recorded but the status is not set
onCancelled_ReasonOnly(result) ==
    /\ qhmItems' = [qhmItems EXCEPT ![queryHistoryItem].failureReason = "Cancelled"]
    /\ trace' = Append(trace, Event("showAndLogErrorMessage",
                          <<"Remote query monitoring was cancelled">>))
    /\ pc' = "showAndLogErrorMessage"

\* lines 107-110: Cancelled
onCancelled(result) ==
    /\ qhmItems' = [qhmItems EXCEPT ![queryHistoryItem].failureReason = "Cancelled",
                                    ![queryHistoryItem].status = "Failed"]
    /\ trace' = Append(trace, Event("showAndLogErrorMessage",
                          <<"Remote query monitoring was cancelled">>))
    /\ pc' = "showAndLogErrorMessage"

\* a slip: no branch for InProgress, which then reaches assertNever and throws
onInProgress_AssertNever(result) ==
    /\ pc' = "rejected"
    /\ UNCHANGED <<qhmItems, trace>>

\* lines 111-113: InProgress
onInProgress(result) ==
    /\ trace' = Append(trace, Event("showAndLogErrorMessage",
                          <<"Unexpected status: ", result.status>>))
    /\ pc' = "showAndLogErrorMessage"
    /\ UNCHANGED qhmItems

\* lines 77-81, 103, 107, 111: polling returns, the time is read, the outcome is classified
\* (the status type has no fifth member for assertNever, lines 114-117)
monitorQueryDone(result) ==
    /\ pc = "monitorQuery"
    /\ queryWorkflowResult' = Some(result)
    /\ executionEndTime' = Some(clock)
    /\ IF result.status = "CompletedSuccessfully" THEN onCompletedSuccessfully(result)
       ELSE IF result.status = "CompletedUnsuccessfully" THEN onCompletedUnsuccessfully(result)
       ELSE IF result.status = "Cancelled" THEN onCancelled(result)
       ELSE onInProgress(result)
    /\ UNCHANGED <<query, queryId, dirs, files, resultIndex, queryResult, analysesToDownload,
                   autoDownload, askToOpen, clock>>
    /\ UNCHANGED <<submitVars, cancelVars, jobVars>>

\* a slip: the item is marked failed when there is no result index
getRemoteQueryIndexNothing_Failed ==
    /\ pc = "getRemoteQueryIndex"
    /\ resultIndex' = None
    /\ qhmItems' = [qhmItems EXCEPT ![queryHistoryItem].status = "Failed"]
    /\ trace' = Append(trace, Event("showAndLogErrorMessage",
                          <<"There was an issue retrieving the result for the query ",
                            query[1].queryName>>))
    /\ pc' = "done"
    /\ UNCHANGED <<query, queryId, dirs, files, queryWorkflowResult, executionEndTime,
                   queryResult, analysesToDownload, autoDownload, askToOpen, clock>>
    /\ UNCHANGED <<submitVars, cancelVars, jobVars>>

\* lines 82-86: no result index; the error is shown and the function returns
getRemoteQueryIndexNothing ==
    /\ pc = "getRemoteQueryIndex"
    /\ resultIndex' = None
    /\ trace' = Append(trace, Event("showAndLogErrorMessage",
                          <<"There was an issue retrieving the result for the query ",
                            query[1].queryName>>))
    /\ pc' = "done"
    /\ UNCHANGED <<query, queryId, dirs, files, qhmItems, queryWorkflowResult, executionEndTime,
                   queryResult, analysesToDownload, autoDownload, askToOpen, clock>>
    /\ UNCHANGED <<submitVars, cancelVars, jobVars>>

\* a slip: storeFile is not awaited, so auto-download starts while query-result.json is being written
getRemoteQueryIndexDone_NotAwaited(index) ==
    /\ pc = "getRemoteQueryIndex"
    /\ resultIndex' = Some(index)
    /\ qhmItems' = [qhmItems EXCEPT ![queryHistoryItem].completed = TRUE,
                                    ![queryHistoryItem].status = "Completed"]
    /\ queryResult' = Some(mapQueryResult(executionEndTime[1], index, queryId))
    /\ autoDownload' = "triggered"
    /\ trace' = Append(trace, Event("codeQL.autoDownloadRemoteQueryResults", queryId))
    /\ pc' = "storeResult"
    /\ UNCHANGED <<query, queryId, dirs, files, queryWorkflowResult, executionEndTime,
                   analysesToDownload, askToOpen, clock>>
    /\ UNCHANGED <<submitVars, cancelVars, jobVars>>

\* a slip: the item is flagged completed but its status is not set
getRemoteQueryIndexDone_StatusNotSet(index) ==
    /\ pc = "getRemoteQueryIndex"
    /\ resultIndex' = Some(index)
    /\ qhmItems' = [qhmItems EXCEPT ![queryHistoryItem].completed = TRUE]
    /\ queryResult' = Some(mapQueryResult(executionEndTime[1], index, queryId))
    /\ pc' = "storeResult"
    /\ UNCHANGED <<query, queryId, dirs, files, queryWorkflowResult, executionEndTime,
                   analysesToDownload, autoDownload, askToOpen, clock, trace>>
    /\ UNCHANGED <<submitVars, cancelVars, jobVars>>

\* a slip: the end time is read when the index is mapped, not when polling returned
getRemoteQueryIndexDone_DateAtMapping(index) ==
    /\ pc = "getRemoteQueryIndex"
    /\ resultIndex' = Some(index)
    /\ qhmItems' = [qhmItems EXCEPT ![queryHistoryItem].completed = TRUE,
                                    ![queryHistoryItem].status = "Completed"]
    /\ queryResult' = Some(mapQueryResult(clock, index, queryId))
    /\ pc' = "storeResult"
    /\ UNCHANGED <<query, queryId, dirs, files, queryWorkflowResult, executionEndTime,
                   analysesToDownload, autoDownload, askToOpen, clock, trace>>
    /\ UNCHANGED <<submitVars, cancelVars, jobVars>>

\* lines 82-91: the result index is there; the item is completed, the index mapped,
\* storeFile starts writing query-result.json
getRemoteQueryIndexDone(index) ==
    /\ pc = "getRemoteQueryIndex"
    /\ resultIndex' = Some(index)
    /\ qhmItems' = [qhmItems EXCEPT ![queryHistoryItem].completed = TRUE,
                                    ![queryHistoryItem].status = "Completed"]
    /\ queryResult' = Some(mapQueryResult(executionEndTime[1], index, queryId))
    /\ pc' = "storeResult"
    /\ UNCHANGED <<query, queryId, dirs, files, queryWorkflowResult, executionEndTime,
                   analysesToDownload, autoDownload, askToOpen, clock, trace>>
    /\ UNCHANGED <<submitVars, cancelVars, jobVars>>

\* lines 91-102 and 118: query-result.json is written; auto-download and the offer to
\* open the results are started in the background; the history view is refreshed
storeResultDone ==
    /\ pc = "storeResult"
    /\ directoryOf(queryId) \in dirs
    /\ files' = writeFile(files, filePathOf(queryId, "query-result.json"), queryResult[1])
    /\ autoDownload' = "triggered"
    /\ askToOpen' = "showInformationMessageWithAction"
    /\ trace' = trace \o << Event("writeFile", filePathOf(queryId, "query-result.json")),
                            Event("codeQL.autoDownloadRemoteQueryResults", queryId),
                            Event("showInformationMessageWithAction", <<query[1].queryName>>),
                            Event("refreshTreeView", <<>>) >>
    /\ pc' = "done"
    /\ UNCHANGED <<query, queryId, dirs, qhmItems, queryWorkflowResult, executionEndTime,
                   resultIndex, queryResult, analysesToDownload, clock>>
    /\ UNCHANGED <<submitVars, cancelVars, jobVars>>

\* a slip: the two background starts sit after the branches, so every branch reaches them
showAndLogErrorMessageDone_StartsBackground ==
    /\ pc = "showAndLogErrorMessage"
    /\ autoDownload' = "triggered"
    /\ askToOpen' = "showInformationMessageWithAction"
    /\ trace' = trace \o << Event("codeQL.autoDownloadRemoteQueryResults", queryId),
                            Event("showInformationMessageWithAction", <<query[1].queryName>>),
                            Event("refreshTreeView", <<>>) >>
    /\ pc' = "done"
    /\ UNCHANGED <<query, queryId, dirs, files, qhmItems, queryWorkflowResult, executionEndTime,
                   resultIndex, queryResult, analysesToDownload, clock>>
    /\ UNCHANGED <<submitVars, cancelVars, jobVars>>

\* lines 106, 110, 113 and 118: the error message is shown; the history view is refreshed
showAndLogErrorMessageDone ==
    /\ pc = "showAndLogErrorMessage"
    /\ trace' = Append(trace, Event("refreshTreeView", <<>>))
    /\ pc' = "done"
    /\ UNCHANGED <<query, queryId, dirs, files, qhmItems, queryWorkflowResult, executionEndTime,
                   resultIndex, queryResult, analysesToDownload, autoDownload, askToOpen, clock>>
    /\ UNCHANGED <<submitVars, cancelVars, jobVars>>

\* lines 69, 70, 75, 77, 82, 91: an awaited call rejects and so does monitorRemoteQuery
awaitRejected ==
    /\ pc \in {"prepareStorageDirectory", "storeQuery", "credentials", "monitorQuery",
               "getRemoteQueryIndex", "storeResult"}
    /\ pc' = "rejected"
    /\ UNCHANGED <<query, queryId, dirs, files, qhmItems, queryWorkflowResult, executionEndTime,
                   resultIndex, queryResult, analysesToDownload, autoDownload, askToOpen,
                   clock, trace>>
    /\ UNCHANGED <<submitVars, cancelVars, jobVars>>

-----------------------------------------------------------------------------
(* autoDownloadRemoteQueryResults, lines 121-139 *)

\* lines 121-135: the command executed at line 94 runs with the token its caller gives
\* it: the requests are built and handed to the download engine with that token
autoDownloadRemoteQueryResults(token) ==
    /\ autoDownload = "triggered"
    /\ analysesToDownload' = analysesToDownloadOf(queryResult[1])
    /\ trace' = Append(trace, Event("downloadAnalysesResults", queryId))
    /\ autoDownload' = "downloadAnalysesResults"
    /\ UNCHANGED <<pc, query, queryId, dirs, files, qhmItems, queryWorkflowResult,
                   executionEndTime, resultIndex, queryResult, askToOpen, clock>>
    /\ tokens' = [tokens EXCEPT !.autoDownload = token, !.download = token]
    /\ UNCHANGED <<submitVars, cancelled, jobVars>>

\* lines 135-139: the download engine resolves or rejects
downloadAnalysesResultsDone(ok) ==
    /\ autoDownload = "downloadAnalysesResults"
    /\ autoDownload' = IF ok THEN "done" ELSE "rejected"
    /\ UNCHANGED <<pc, query, queryId, dirs, files, qhmItems, queryWorkflowResult,
                   executionEndTime, resultIndex, queryResult, analysesToDownload, askToOpen,
                   clock, trace>>
    /\ UNCHANGED <<submitVars, cancelVars, jobVars>>

-----------------------------------------------------------------------------
(* askToOpenResults, lines 160-168, and its handlers, lines 97-102 *)

\* lines 164-167: the user answers; with 'View' the results are shown
showInformationMessageWithActionDone(shouldOpenView) ==
    /\ askToOpen = "showInformationMessageWithAction"
    /\ IF shouldOpenView
       THEN /\ trace' = Append(trace, Event("showResults", queryId))
            /\ askToOpen' = "showResults"
       ELSE /\ askToOpen' = "done"
            /\ UNCHANGED trace
    /\ UNCHANGED <<pc, query, queryId, dirs, files, qhmItems, queryWorkflowResult,
                   executionEndTime, resultIndex, queryResult, analysesToDownload, autoDownload,
                   clock>>
    /\ UNCHANGED <<submitVars, cancelVars, jobVars>>

\* lines 166-167 and 98: the results are shown
showResultsDone ==
    /\ askToOpen = "showResults"
    /\ askToOpen' = "done"
    /\ UNCHANGED <<pc, query, queryId, dirs, files, qhmItems, queryWorkflowResult,
                   executionEndTime, resultIndex, queryResult, analysesToDownload, autoDownload,
                   clock, trace>>
    /\ UNCHANGED <<submitVars, cancelVars, jobVars>>

\* a slip: the rejection handler also marks the item failed
askToOpenResultsRejected_MarksFailed(err) ==
    /\ askToOpen \in {"showInformationMessageWithAction", "showResults"}
    /\ trace' = Append(trace, Event("showAndLogErrorMessage", <<err>>))
    /\ qhmItems' = [qhmItems EXCEPT ![queryHistoryItem].failureReason = err,
                                    ![queryHistoryItem].status = "Failed"]
    /\ askToOpen' = "rejected"
    /\ UNCHANGED <<pc, query, queryId, dirs, files, queryWorkflowResult,
                   executionEndTime, resultIndex, queryResult, analysesToDownload, autoDownload,
                   clock>>
    /\ UNCHANGED <<submitVars, cancelVars, jobVars>>

\* lines 99-101: the prompt or the view rejects; the error is shown
askToOpenResultsRejected(err) ==
    /\ askToOpen \in {"showInformationMessageWithAction", "showResults"}
    /\ trace' = Append(trace, Event("showAndLogErrorMessage", <<err>>))
    /\ askToOpen' = "rejected"
    /\ UNCHANGED <<pc, query, queryId, dirs, files, qhmItems, queryWorkflowResult,
                   executionEndTime, resultIndex, queryResult, analysesToDownload, autoDownload,
                   clock>>
    /\ UNCHANGED <<submitVars, cancelVars, jobVars>>

-----------------------------------------------------------------------------

\* the wall clock advances
Tick ==
    /\ clock < MaxClock
    /\ clock' = clock + 1
    /\ UNCHANGED <<pc, query, queryId, dirs, files, qhmItems, queryWorkflowResult,
                   executionEndTime, resultIndex, queryResult, analysesToDownload, autoDownload,
                   askToOpen, trace>>
    /\ UNCHANGED <<submitVars, cancelVars, jobVars>>

Next ==
    \/ \E token \in Tokens : runRemoteQuery(token)
    \/ runCredentialsDone
    \/ \E submission \in Submissions : runRemoteQueryDone(submission)
    \/ runRejected
    \/ \E token \in Tokens : Cancel(token)
    \/ \E q \in Queries, nanoid \in NanoIds, token \in Tokens :
          monitorRemoteQuery(q, nanoid, token)
    \/ prepareStorageDirectoryDone
    \/ storeQueryDone
    \/ credentialsDone
    \/ \E result \in monitorQueryResults : monitorQueryDone(result)
    \/ getRemoteQueryIndexNothing
    \/ \E index \in RunIndexes : getRemoteQueryIndexDone(index)
    \/ storeResultDone
    \/ showAndLogErrorMessageDone
    \/ awaitRejected
    \/ \E token \in Tokens : autoDownloadRemoteQueryResults(token)
    \/ \E ok \in downloadOutcomes : downloadAnalysesResultsDone(ok)
    \/ \E shouldOpenView \in BOOLEAN : showInformationMessageWithActionDone(shouldOpenView)
    \/ showResultsDone
    \/ \E err \in Errors : askToOpenResultsRejected(err)
    \/ Tick

Spec == Init /\ [][Next]_vars

-----------------------------------------------------------------------------
(* Harness of the two pure functions: map a result index, then admit *)

HarnessInit ==
    /\ pc = "toMap"
    /\ resultIndex \in { Some(x) : x \in HarnessIndexes }
    /\ queryId \in StorageKeys
    /\ executionEndTime \in { Some(t) : t \in 0..MaxClock }
    /\ query = None
    /\ dirs = {}
    /\ files = <<>>
    /\ qhmItems = <<>>
    /\ queryWorkflowResult = None
    /\ queryResult = None
    /\ analysesToDownload = <<>>
    /\ autoDownload = "none"
    /\ askToOpen = "none"
    /\ clock = 0
    /\ trace = <<>>
    /\ runPc = "idle"
    /\ querySubmission = None
    /\ monitorCommand = None
    /\ tokens = NoTokens
    /\ cancelled = {}
    /\ jobs = <<>>
    /\ issued = {}
    /\ written = <<>>

HarnessMap ==
    /\ pc = "toMap"
    /\ queryResult' = Some(mapQueryResult(executionEndTime[1], resultIndex[1], queryId))
    /\ pc' = "mapped"
    /\ UNCHANGED <<query, queryId, dirs, files, qhmItems, queryWorkflowResult, executionEndTime,
                   resultIndex, analysesToDownload, autoDownload, askToOpen, clock, trace>>
    /\ UNCHANGED <<submitVars, cancelVars, jobVars>>

\* a slip: the filtered and cut list is stored back into the result
HarnessAdmit_InPlace ==
    /\ pc = "mapped"
    /\ analysesToDownload' = analysesToDownloadOf(queryResult[1])
    /\ queryResult' = Some([queryResult[1] EXCEPT !.analysisSummaries =
                                sliceToMaxCount(filterAdmitted(queryResult[1].analysisSummaries))])
    /\ pc' = "admitted"
    /\ UNCHANGED <<query, queryId, dirs, files, qhmItems, queryWorkflowResult, executionEndTime,
                   resultIndex, autoDownload, askToOpen, clock, trace>>
    /\ UNCHANGED <<submitVars, cancelVars, jobVars>>

HarnessAdmit ==
    /\ pc = "mapped"
    /\ analysesToDownload' = analysesToDownloadOf(queryResult[1])
    /\ pc' = "admitted"
    /\ UNCHANGED <<query, queryId, dirs, files, qhmItems, queryWorkflowResult, executionEndTime,
                   resultIndex, queryResult, autoDownload, askToOpen, clock, trace>>
    /\ UNCHANGED <<submitVars, cancelVars, jobVars>>

HarnessNext == HarnessMap \/ HarnessAdmit

PureSpec == HarnessInit /\ [][HarnessNext]_vars

-----------------------------------------------------------------------------
(* Two interleaved runs of monitorRemoteQuery and the paths they write *)

Runs == {1, 2}

\* nanoid(), line 177: a unique id, one that no earlier call has returned
nanoid(returned) == NanoIds \ returned

otherVars ==
    <<pc, query, queryId, dirs, files, qhmItems, queryWorkflowResult, executionEndTime,
      resultIndex, queryResult, analysesToDownload, autoDownload, askToOpen, clock, trace,
      submitVars, cancelVars>>

TwoRunsInit ==
    /\ jobs = [r \in Runs |-> [pc |-> "idle", queryName |-> "", queryId |-> <<>>]]
    /\ issued = {}
    /\ written = [r \in Runs |-> {}]
    /\ pc = "idle"
    /\ query = None
    /\ queryId = <<>>
    /\ dirs = {}
    /\ files = <<>>
    /\ qhmItems = <<>>
    /\ queryWorkflowResult = None
    /\ executionEndTime = None
    /\ resultIndex = None
    /\ queryResult = None
    /\ analysesToDownload = <<>>
    /\ autoDownload = "none"
    /\ askToOpen = "none"
    /\ clock = 0
    /\ trace = <<>>
    /\ runPc = "idle"
    /\ querySubmission = None
    /\ monitorCommand = None
    /\ tokens = NoTokens
    /\ cancelled = {}

\* lines 64-69 and 175-178: a run starts and makes its queryId
monitorRemoteQueryIn(r, q) ==
    /\ jobs[r].pc = "idle"
    /\ \E id \in nanoid(issued) :
          /\ issued' = issued \cup {id}
          /\ jobs' = [jobs EXCEPT ![r] = [pc |-> "prepareStorageDirectory",
                                          queryName |-> q.queryName,
                                          queryId |-> createQueryId(q.queryName, id)]]
    /\ UNCHANGED <<written, otherVars>>

\* lines 69 and 188-190: the timestamp file of the run's directory is written
prepareStorageDirectoryIn(r) ==
    /\ jobs[r].pc = "prepareStorageDirectory"
    /\ written' = [written EXCEPT ![r] = @ \cup {directoryOf(jobs[r].queryId)}]
    /\ jobs' = [jobs EXCEPT ![r].pc = "storeQuery"]
    /\ UNCHANGED <<issued, otherVars>>

\* lines 70 and 192-195: query.json is written
storeQueryIn(r) ==
    /\ jobs[r].pc = "storeQuery"
    /\ written' = [written EXCEPT ![r] = @ \cup {filePathOf(jobs[r].queryId, "query.json")}]
    /\ jobs' = [jobs EXCEPT ![r].pc = "monitorQuery"]
    /\ UNCHANGED <<issued, otherVars>>

\* lines 72-91 and 103-118: polling ends; only a run with a result index goes on to write
monitorQueryIn(r, withResultIndex) ==
    /\ jobs[r].pc = "monitorQuery"
    /\ jobs' = [jobs EXCEPT ![r].pc = IF withResultIndex THEN "storeResult" ELSE "done"]
    /\ UNCHANGED <<issued, written, otherVars>>

\* lines 91 and 192-195: query-result.json is written
storeResultIn(r) ==
    /\ jobs[r].pc = "storeResult"
    /\ written' = [written EXCEPT ![r] =
                      @ \cup {filePathOf(jobs[r].queryId, "query-result.json")}]
    /\ jobs' = [jobs EXCEPT ![r].pc = "done"]
    /\ UNCHANGED <<issued, otherVars>>

TwoRunsNext ==
    \/ \E r \in Runs, q \in Queries : monitorRemoteQueryIn(r, q)
    \/ \E r \in Runs : prepareStorageDirectoryIn(r)
    \/ \E r \in Runs : storeQueryIn(r)
    \/ \E r \in Runs, withResultIndex \in BOOLEAN : monitorQueryIn(r, withResultIndex)
    \/ \E r \in Runs : storeResultIn(r)

TwoRunsSpec == TwoRunsInit /\ [][TwoRunsNext]_vars

-----------------------------------------------------------------------------
(* Properties of a monitorRemoteQuery run (checked under Spec) *)

Positions(op) == { i \in DOMAIN trace : trace[i].op = op }
Called(op) == Positions(op) # {}
CalledWith(op, arg) == \E i \in Positions(op) : trace[i].arg = arg

Polled == queryWorkflowResult # None
Outcome == queryWorkflowResult[1].status

queryJson == filePathOf(queryId, "query.json")
queryResultJson == filePathOf(queryId, "query-result.json")

TrackedItem == qhmItems[queryHistoryItem]
AsRegistered == RemoteQueryHistoryItem(query[1].queryName, queryId, storagePath)

NoSummaryNoAutoDownload ==
    /\ queryResultJson \notin DOMAIN files
    /\ ~Called("codeQL.autoDownloadRemoteQueryResults")
    /\ autoDownload = "none"
    /\ analysesToDownload = <<>>

\* C1: whenever a run of monitorRemoteQuery has returned, whatever the branch taken after
\* polling, the history view was refreshed after polling returned.
C1_RefreshedAtEnd ==
    pc = "done" =>
        \E i \in Positions("monitorQuery") : \E j \in Positions("refreshTreeView") : i < j

IndexRetrievalFailed ==
    /\ pc = "done"
    /\ Polled
    /\ Outcome = "CompletedSuccessfully"
    /\ resultIndex = None

\* C2: when polling ends CompletedSuccessfully and index retrieval returns nothing, the
\* tracked item is as it was registered (status, completed flag, no failure reason), an
\* error is reported, no summary is written and auto-download is not triggered.
C2_IndexRetrievalFailedLeavesItem ==
    IndexRetrievalFailed =>
        /\ TrackedItem = AsRegistered
        /\ TrackedItem.status \notin {"Completed", "Failed"}
        /\ TrackedItem.completed = FALSE
        /\ TrackedItem.failureReason = Undefined
        /\ CalledWith("showAndLogErrorMessage",
               <<"There was an issue retrieving the result for the query ", query[1].queryName>>)
        /\ queryResult = None
        /\ NoSummaryNoAutoDownload

C2_Witness == IndexRetrievalFailed /\ Len(qhmItems) = 1

\* C3: query.json is written before the item is added to the history, and the item is
\* added before polling starts; polling never starts for a job that is not persisted
\* and registered.
C3_PersistThenRegisterThenPoll ==
    /\ \A j \in Positions("addQuery") :
           \E i \in Positions("writeFile") : i < j /\ trace[i].arg = queryJson
    /\ \A k \in Positions("monitorQuery") :
           \E j \in Positions("addQuery") : j < k /\ trace[j].arg = queryId
    /\ Called("monitorQuery") =>
           /\ queryJson \in DOMAIN files
           /\ files[queryJson] = query[1]
           /\ Len(qhmItems) = 1
           /\ TrackedItem.queryId = queryId

C3_Witness == pc = "monitorQuery" /\ Called("monitorQuery")

\* C4: on the success path the result index is mapped before the summary is written,
\* and the summary is written before auto-download is triggered; auto-download is never
\* triggered with a summary that has not been written.
C4_MapThenPersistThenAutoDownload ==
    /\ queryResultJson \in DOMAIN files =>
           /\ queryResult # None
           /\ resultIndex # None
           /\ files[queryResultJson] = queryResult[1]
           /\ queryResult[1] = mapQueryResult(executionEndTime[1], resultIndex[1], queryId)
    /\ \A j \in Positions("codeQL.autoDownloadRemoteQueryResults") :
           \E i \in Positions("writeFile") : i < j /\ trace[i].arg = queryResultJson
    /\ autoDownload # "none" =>
           /\ queryResultJson \in DOMAIN files
           /\ files[queryResultJson] = queryResult[1]

C4_Witness ==
    /\ autoDownload = "triggered"
    /\ Len(queryResult[1].analysisSummaries) > 0

\* C5: when polling ends Cancelled, the tracked item is Failed with failure reason
\* "Cancelled", the cancellation message is reported, no summary is written and
\* auto-download is not triggered; the run ends so.
C5_Cancelled ==
    (Polled /\ Outcome = "Cancelled") =>
        /\ pc \in {"showAndLogErrorMessage", "done"}
        /\ TrackedItem.status = "Failed"
        /\ TrackedItem.failureReason = "Cancelled"
        /\ CalledWith("showAndLogErrorMessage", <<"Remote query monitoring was cancelled">>)
        /\ queryResult = None
        /\ NoSummaryNoAutoDownload

C5_Witness == Polled /\ Outcome = "Cancelled" /\ pc = "done"

\* C6: when polling ends CompletedUnsuccessfully with error e, the tracked item is
\* Failed with failure reason e, the error is reported, the item is not marked
\* completed, no result index is fetched, no summary written, no auto-download triggered.
C6_CompletedUnsuccessfully ==
    (Polled /\ Outcome = "CompletedUnsuccessfully") =>
        /\ pc \in {"showAndLogErrorMessage", "done"}
        /\ TrackedItem.status = "Failed"
        /\ TrackedItem.failureReason = queryWorkflowResult[1].error
        /\ TrackedItem.completed = FALSE
        /\ CalledWith("showAndLogErrorMessage",
               <<"Remote query execution failed. Error: ", queryWorkflowResult[1].error>>)
        /\ ~Called("getRemoteQueryIndex")
        /\ resultIndex = None
        /\ queryResult = None
        /\ NoSummaryNoAutoDownload

C6_Witness ==
    /\ Polled
    /\ Outcome = "CompletedUnsuccessfully"
    /\ queryWorkflowResult[1].error = "Timed out"
    /\ pc = "done"

-----------------------------------------------------------------------------
(* Properties of mapQueryResult and of the admission filter (checked under PureSpec) *)

DigitValue(c) == CHOOSE d \in 0..9 : Digits[d + 1] = c

\* the number a string of decimal digits denotes
RECURSIVE DecimalValue(_)
DecimalValue(str) ==
    IF Len(str) = 0 THEN 0
    ELSE 10 * DecimalValue(SubSeq(str, 1, Len(str) - 1)) + DigitValue(str[Len(str)])

IsDecimal(str) ==
    /\ Len(str) > 0
    /\ \A i \in DOMAIN str : \E d \in 0..9 : Digits[d + 1] = str[i]
    /\ Len(str) > 1 => str[1] # "0"

Mapped == pc \in {"mapped", "admitted"}
IndexItems == resultIndex[1].items
Summaries == queryResult[1].analysisSummaries

\* the places of the summaries smaller than maxBytes
Admissible(ss, maxBytes) == { i \in DOMAIN ss : ss[i].fileSizeInBytes < maxBytes }

\* the place of the j-th of them
NthAdmissible(ss, maxBytes, j) ==
    CHOOSE i \in Admissible(ss, maxBytes) :
        Cardinality({ k \in Admissible(ss, maxBytes) : k <= i }) = j

\* C8: the request list is the subsequence of the summaries whose size is strictly less
\* than autoDownloadMaxSize (300 * 1024), in their order, cut to its first
\* autoDownloadMaxCount (100): its length is the minimum of the cap and the number of
\* such summaries, and sizes 100000, 400000, 50000 admit the first and the third target.
C8_AdmissionFilter ==
    pc = "admitted" =>
        LET n == Min(autoDownloadMaxCount,
                     Cardinality(Admissible(Summaries, autoDownloadMaxSize)))
        IN  /\ autoDownloadMaxSize = 307200
            /\ autoDownloadMaxCount = 100
            /\ Len(analysesToDownload) = n
            /\ \A j \in 1..n :
                   LET a == Summaries[NthAdmissible(Summaries, autoDownloadMaxSize, j)]
                       r == analysesToDownload[j]
                   IN  /\ r.nwo = a.nwo
                       /\ r.resultCount = a.resultCount
                       /\ r.downloadLink = a.downloadLink
                       /\ IsDecimal(r.fileSize)
                       /\ DecimalValue(r.fileSize) = a.fileSizeInBytes
                       /\ a.fileSizeInBytes # autoDownloadMaxSize
            /\ IndexItems = ScenarioItems =>
                   /\ [j \in 1..Len(Summaries) |-> Summaries[j].fileSizeInBytes]
                          = <<100000, 400000, 50000>>
                   /\ [j \in 1..n |-> analysesToDownload[j].nwo] = <<"o/a", "o/c">>

\* more summaries are small enough than the count cap admits, and some are too large
C8_Witness ==
    /\ pc = "admitted"
    /\ Cardinality(Admissible(Summaries, autoDownloadMaxSize)) > autoDownloadMaxCount
    /\ Len(Summaries) > Cardinality(Admissible(Summaries, autoDownloadMaxSize))
    /\ Len(analysesToDownload) = autoDownloadMaxCount

\* C9: for every entry of the result index, if its SARIF size is present and nonzero the
\* summary's size is the SARIF size and the file kind "results.sarif"; otherwise the size
\* is the BQRS size and the file kind "results.bqrs".
C9_OneArtifactKind ==
    Mapped =>
        \A i \in DOMAIN IndexItems :
            LET item == IndexItems[i]
                a == Summaries[i]
            IN  IF item.sarifFileSize # NoNumber /\ item.sarifFileSize[1] > 0
                THEN /\ a.fileSizeInBytes = item.sarifFileSize[1]
                     /\ a.downloadLink.innerFilePath = "results.sarif"
                ELSE /\ a.fileSizeInBytes = item.bqrsFileSize
                     /\ a.downloadLink.innerFilePath = "results.bqrs"

\* an index with a zero SARIF size, an absent one and a nonzero one
C9_Witness ==
    /\ pc = "mapped"
    /\ Len(IndexItems) = 3
    /\ IndexItems[1].sarifFileSize = Some(100000)
    /\ IndexItems[2].sarifFileSize = NoNumber
    /\ IndexItems[3].sarifFileSize = Some(0)
    /\ Summaries[3].downloadLink.innerFilePath = "results.bqrs"

\* C10: the mapped result has one summary per entry of the index, in the index's order;
\* the i-th summary has the i-th entry's nwo and result count, a download link whose id
\* is the entry's artifact id in decimal, whose urlPath is the index's artifactsUrlPath,
\* "/" and that id, and whose queryId is the given storage key; the end time is the
\* given one.
C10_OrderPreservingMap ==
    Mapped =>
        /\ Len(Summaries) = Len(IndexItems)
        /\ queryResult[1].executionEndTime = executionEndTime[1]
        /\ \A i \in DOMAIN IndexItems :
               LET item == IndexItems[i]
                   a == Summaries[i]
               IN  /\ a.nwo = item.nwo
                   /\ a.resultCount = item.resultCount
                   /\ IsDecimal(a.downloadLink.id)
                   /\ DecimalValue(a.downloadLink.id) = item.artifactId
                   /\ a.downloadLink.urlPath
                          = resultIndex[1].artifactsUrlPath \o <<"/">> \o a.downloadLink.id
                   /\ a.downloadLink.queryId = queryId

\* two different entries, the second with an artifact id of two digits
C10_Witness ==
    /\ pc = "mapped"
    /\ Len(IndexItems) = 2
    /\ IndexItems[1].nwo = "o/a"
    /\ IndexItems[2].nwo = "o/b"
    /\ Summaries[2].downloadLink.id = <<"1", "2">>
    /\ queryId = <<"q2", "-", "n1">>

-----------------------------------------------------------------------------
(* Properties of the tracked item, of the background tasks and of the end time *)
(* (checked under Spec)                                                        *)

TerminalOutcomes == {"CompletedSuccessfully", "CompletedUnsuccessfully", "Cancelled"}

\* C11 as stated: a run that observed a terminal outcome and returned has moved the
\* tracked status off its initial value, to Completed or Failed.
C11_ExactlyOncePerTerminalOutcome ==
    (pc = "done" /\ Polled /\ Outcome \in TerminalOutcomes) =>
        TrackedItem.status \in {"Completed", "Failed"}

StatusAfterOutcome ==
    /\ (Polled /\ Outcome \in {"CompletedUnsuccessfully", "Cancelled"}) =>
           TrackedItem.status = "Failed"
    /\ (Polled /\ Outcome = "CompletedSuccessfully" /\ resultIndex # None) =>
           TrackedItem.status = "Completed"
    /\ (Polled /\ Outcome = "CompletedSuccessfully" /\ resultIndex = None) =>
           TrackedItem.status = "InProgress"
    /\ (qhmItems # <<>> /\ ~Polled) => TrackedItem.status = "InProgress"

StatusChangesOnce ==
    (qhmItems # <<>> /\ qhmItems' # qhmItems) =>
        /\ TrackedItem.status = "InProgress"
        /\ Len(qhmItems') = 1
        /\ qhmItems'[queryHistoryItem].status \in {"Completed", "Failed"}
        /\ queryWorkflowResult' # None
        /\ queryWorkflowResult'[1].status \in TerminalOutcomes

\* C11 (amended): the tracked status changes at most once in a run, from InProgress, to
\* Failed on CompletedUnsuccessfully or Cancelled and to Completed on
\* CompletedSuccessfully with a result index, and the item is not changed again; on
\* CompletedSuccessfully without a result index it does not change at all.
C11_AtMostOncePerTerminalOutcome == []StatusAfterOutcome /\ [][StatusChangesOnce]_vars

C11_Witness ==
    /\ pc = "done"
    /\ Polled
    /\ Outcome = "CompletedSuccessfully"
    /\ TrackedItem.status = "Completed"
    /\ autoDownload = "done"

AutoDownloadCanGoOn ==
    /\ autoDownload # "none"
    /\ autoDownload = "triggered" => ENABLED (\E token \in Tokens : autoDownloadRemoteQueryResults(token))
    /\ autoDownload = "downloadAnalysesResults" =>
           ENABLED (\E ok \in BOOLEAN : downloadAnalysesResultsDone(ok))

OfferCanGoOn ==
    /\ askToOpen # "none"
    /\ askToOpen = "showInformationMessageWithAction" =>
           /\ ENABLED showInformationMessageWithActionDone(TRUE)
           /\ ENABLED showInformationMessageWithActionDone(FALSE)
    /\ askToOpen = "showResults" => ENABLED showResultsDone

IndependentOutcomes ==
    /\ askToOpen = "rejected" =>
           /\ \E err \in Errors : CalledWith("showAndLogErrorMessage", <<err>>)
           /\ AutoDownloadCanGoOn
    /\ autoDownload = "rejected" => OfferCanGoOn
    /\ (askToOpen # "none" \/ autoDownload # "none") =>
           /\ TrackedItem.status = "Completed"
           /\ TrackedItem.completed
           /\ TrackedItem.failureReason = Undefined

IndependentSteps ==
    /\ (askToOpen # "none" /\ askToOpen' # askToOpen) =>
           UNCHANGED <<autoDownload, analysesToDownload, qhmItems, queryResult, files>>
    /\ (autoDownload # "none" /\ autoDownload' # autoDownload) =>
           UNCHANGED <<askToOpen, qhmItems, queryResult, files>>

\* C13: after a successful run auto-download and the offer to view the results go on
\* independently in every interleaving: a failure of the offer (or of showing the
\* results) is reported, leaves auto-download able to go on and the tracked status
\* Completed; a failure of auto-download leaves the offer able to go on and the tracked
\* status Completed; no step of either changes the other or the tracked item.
C13_OfferAndAutoDownloadIndependent == []IndependentOutcomes /\ [][IndependentSteps]_vars

C13_Witness ==
    /\ askToOpen = "rejected"
    /\ autoDownload = "rejected"
    /\ Called("showResults")
    /\ Called("downloadAnalysesResults")

-----------------------------------------------------------------------------
(* Frame of the admission filter (checked under PureSpec) *)

AdmitLeavesResult ==
    (pc = "mapped" /\ pc' = "admitted") =>
        /\ queryResult' = queryResult
        /\ queryResult'[1].analysisSummaries = queryResult[1].analysisSummaries
        /\ queryResult'[1].executionEndTime = queryResult[1].executionEndTime
        /\ \A j \in DOMAIN analysesToDownload' :
               \E i \in Admissible(queryResult[1].analysisSummaries, autoDownloadMaxSize) :
                   /\ analysesToDownload'[j].nwo = queryResult[1].analysisSummaries[i].nwo
                   /\ analysesToDownload'[j].downloadLink
                          = queryResult[1].analysisSummaries[i].downloadLink
        /\ Len(analysesToDownload') <= autoDownloadMaxCount

\* C16: autoDownloadRemoteQueryResults leaves the result it is given as it was: its
\* analysis summaries (those not admitted included) and its end time are unchanged, and
\* only requests for admitted summaries are handed on.
C16_AutoDownloadLeavesSummary == [][AdmitLeavesResult]_vars

\* two summaries, the first as large as the cap and so not admitted
C16_Witness ==
    /\ pc = "admitted"
    /\ Len(Summaries) = 2
    /\ Summaries[1].fileSizeInBytes = autoDownloadMaxSize
    /\ Len(analysesToDownload) = 1
    /\ queryResult[1] = mapQueryResult(executionEndTime[1], resultIndex[1], queryId)

-----------------------------------------------------------------------------
(* The end time (checked under Spec) *)

EndTimeSteps ==
    /\ (queryWorkflowResult = None /\ queryWorkflowResult' # None) =>
           /\ executionEndTime' = Some(clock)
           /\ ~Called("getRemoteQueryIndex")
           /\ resultIndex' = None
           /\ queryResult' = None
    /\ (executionEndTime = None /\ executionEndTime' # None) =>
           (queryWorkflowResult = None /\ queryWorkflowResult' # None)
    /\ executionEndTime # None => executionEndTime' = executionEndTime
    /\ (queryResult = None /\ queryResult' # None) =>
           queryResult'[1].executionEndTime = executionEndTime[1]

EndTimeKept ==
    /\ executionEndTime = None =>
           (~Called("getRemoteQueryIndex") /\ resultIndex = None /\ queryResult = None)
    /\ queryResult # None => queryResult[1].executionEndTime = executionEndTime[1]
    /\ queryResultJson \in DOMAIN files =>
           files[queryResultJson].executionEndTime = executionEndTime[1]

\* C17: the end time in the persisted summary is the clock value read when polling
\* returned: it is read in the step that observes the outcome, before the result index is
\* asked for and before the mapper runs, it never changes afterwards, and the mapper and
\* the write copy it unchanged.
C17_EndTimeCapturedAfterPolling == []EndTimeKept /\ [][EndTimeSteps]_vars

\* the clock has moved on since the end time in the persisted summary was read
C17_Witness ==
    /\ queryResultJson \in DOMAIN files
    /\ files[queryResultJson].executionEndTime = 0
    /\ clock > 0
    /\ pc = "done"

-----------------------------------------------------------------------------
(* Consistency of the tracked item and the background starts (checked under Spec) *)

\* C18: in every state of a run the tracked item is consistent: it has a failure reason
\* exactly when its status is Failed, and its completed flag is set exactly when its
\* status is Completed (so a Completed item has no failure reason).
C18_TrackedItemConsistent ==
    qhmItems # <<>> =>
        /\ (TrackedItem.failureReason # Undefined) <=> (TrackedItem.status = "Failed")
        /\ TrackedItem.completed <=> (TrackedItem.status = "Completed")
        /\ TrackedItem.status = "Completed" => TrackedItem.failureReason = Undefined
        /\ TrackedItem.status \in {"InProgress", "Completed", "Failed"}

\* a failed item while its error message is still awaited
C18_Witness ==
    /\ pc = "showAndLogErrorMessage"
    /\ TrackedItem.status = "Failed"
    /\ TrackedItem.failureReason = "Workflow failed"
    /\ ~TrackedItem.completed

\* C19: whenever a run has ended (returned or rejected) with the tracked item Completed, a
\* result summary has been written under the job's storage key.
C19_CompletedHasSummary ==
    (pc \in {"done", "rejected"} /\ qhmItems # <<>> /\ TrackedItem.status = "Completed") =>
        queryResultJson \in DOMAIN files

StartedAtMostOnce(op) == Cardinality(Positions(op)) <= 1

\* C20: auto-download and the offer to view the results are each started at most once in
\* a run, and only when polling ended CompletedSuccessfully, the result index was
\* retrieved, the tracked status is Completed and the summary has been written; never
\* on the other paths.
C20_BackgroundStartsOnlyOnSuccess ==
    /\ StartedAtMostOnce("codeQL.autoDownloadRemoteQueryResults")
    /\ StartedAtMostOnce("showInformationMessageWithAction")
    /\ StartedAtMostOnce("downloadAnalysesResults")
    /\ (autoDownload # "none") <=> Called("codeQL.autoDownloadRemoteQueryResults")
    /\ (askToOpen # "none") <=> Called("showInformationMessageWithAction")
    /\ (autoDownload # "none" \/ askToOpen # "none") =>
           /\ Polled
           /\ Outcome = "CompletedSuccessfully"
           /\ resultIndex # None
           /\ TrackedItem.status = "Completed"
           /\ queryResultJson \in DOMAIN files
           /\ pc = "done"
    /\ (Polled /\ Outcome # "CompletedSuccessfully") =>
           (autoDownload = "none" /\ askToOpen = "none")
    /\ (pc \in {"done", "rejected"} /\ resultIndex = None) =>
           (autoDownload = "none" /\ askToOpen = "none")

C20_Witness ==
    /\ pc = "done"
    /\ autoDownload = "triggered"
    /\ askToOpen = "showInformationMessageWithAction"
    /\ Cardinality(Positions("codeQL.autoDownloadRemoteQueryResults")) = 1

-----------------------------------------------------------------------------
\* the submission resolved to a job descriptor
HasJob == querySubmission # None /\ querySubmission[1].query # None

\* nothing of monitorRemoteQuery has happened
NoFollowUp ==
    /\ ~Called("codeQL.monitorRemoteQuery")
    /\ monitorCommand = None
    /\ pc = "idle" /\ query = None
    /\ dirs = {} /\ files = <<>> /\ qhmItems = <<>>

MonitoringFollowsJob ==
    /\ runPc # "done" => NoFollowUp
    /\ (runPc = "done" /\ ~HasJob) => NoFollowUp
    /\ (runPc = "done" /\ HasJob) =>
          /\ Cardinality(Positions("codeQL.monitorRemoteQuery")) = 1
          /\ CalledWith("codeQL.monitorRemoteQuery", <<querySubmission[1].query[1].queryName>>)
          /\ monitorCommand \in {None, querySubmission[1].query}
          /\ (pc = "idle") <=> (monitorCommand # None)
          /\ pc # "idle" => query = querySubmission[1].query

\* runRemoteQuery returns in the step that executes the command: monitoring has not begun
ReturnsBeforeMonitoring ==
    (runPc # "done" /\ runPc' = "done") => (pc = "idle" /\ pc' = "idle" /\ ~Polled')

\* C12: runRemoteQuery triggers monitoring if and only if the submission returned a job:
\* without a submission or without a query in it nothing is monitored, written or
\* registered; with a query, monitoring of exactly that query is triggered once, and
\* runRemoteQuery has returned before monitorRemoteQuery takes its first step.
C12_MonitoringIffJob == []MonitoringFollowsJob /\ [][ReturnsBeforeMonitoring]_vars

C12_Witness == runPc = "done" /\ HasJob /\ pc = "monitorQuery" /\ ~Polled

-----------------------------------------------------------------------------
\* each operation hands the token it was given to its collaborator (lines 57, 77, 134)
TokenPassedOn ==
    /\ tokens.submit # "none" => tokens.submit = tokens.run
    /\ tokens.poll # "none" => tokens.poll = tokens.monitor
    /\ tokens.download # "none" => tokens.download = tokens.autoDownload

\* the token of runRemoteQuery is the token of the operations that follow from it
OneSignal ==
    /\ tokens.monitor # "none" => tokens.monitor = tokens.run
    /\ tokens.autoDownload # "none" => tokens.autoDownload = tokens.monitor

\* C14: one cancellation signal is threaded through submission, monitoring and
\* auto-download: monitorRemoteQuery polls with the token runRemoteQuery was given and
\* autoDownloadRemoteQueryResults downloads with the token monitorRemoteQuery was given,
\* so that once that signal has fired polling can only end Cancelled and the download
\* delegation can only be aborted.
C14_SingleSignalThreaded ==
    /\ TokenPassedOn
    /\ OneSignal
    /\ (pc = "monitorQuery" /\ tokens.run \in cancelled) =>
          \A r \in monitorQueryResults : r.status = "Cancelled"
    /\ (autoDownload = "downloadAnalysesResults" /\ tokens.monitor \in cancelled) =>
          downloadOutcomes = {FALSE}

-----------------------------------------------------------------------------
Started(r) == jobs[r].pc # "idle"

\* C15: no two concurrent runs of monitorRemoteQuery write the same path: the queryIds
\* of two started runs differ, also when the two queries have the same name, and no
\* directory, query.json or query-result.json path written by one run is written by the
\* other.
C15_NoSharedPath ==
    \A r1 \in Runs, r2 \in Runs :
        r1 # r2 =>
            /\ (Started(r1) /\ Started(r2)) => jobs[r1].queryId # jobs[r2].queryId
            /\ written[r1] \cap written[r2] = {}

C15_Witness ==
    /\ \A r \in Runs : jobs[r].pc = "done" /\ Cardinality(written[r]) = 3
    /\ jobs[1].queryName = jobs[2].queryName

====
